---- MODULE Spec2Model ----
(***************************************************************************)
(* surge-ping: the Ping Session (Pinger, src/src/ping.rs) on top of the    *)
(* shared Reply Router (ReplyMap) and its intake task.                     *)
(*                                                                         *)
(* The Pinger is translated from src/src/ping.rs.  The ReplyMap, the       *)
(* intake task and the Client live in client.rs, which is not part of the  *)
(* available sources: they are modelled from sections 4.2, 4.3 and 9 of    *)
(* the specification.                                                      *)
(*                                                                         *)
(* One ping_send call is three steps, because other tasks (the intake      *)
(* task, other sessions, other calls of the same session) run between      *)
(* them on the multi-threaded runtime:                                     *)
(*   line 71      new_waiter                 PingSendRegister              *)
(*   lines 74-77  send_ping, rollback        PingSendTransmitOk / ...Err   *)
(*   lines 79-82  Instant::now, store, Ok    PingSendFinish                *)
(*                                                                         *)
(* The Client outlives its Pingers (as in src/src/main.rs, where it is     *)
(* declared first and dropped last), so the ReplyMap itself is never       *)
(* dropped during a run.                                                   *)
(***************************************************************************)
EXTENDS Integers, Sequences, FiniteSets, TLC

\* Bounds of the model.
MaxCalls == 2       \* calls of ping_send / send_ping over the whole run
MaxSeq == 2         \* sequence numbers 1..MaxSeq
MaxTime == 1        \* the monotonic clock runs 0..MaxTime

Sessions == {"A", "B"}
Hosts == {"10.0.0.1"}
Hints == {4242, 4243}
SocketTypes == {"RAW", "DGRAM"}

CallIds == 1..MaxCalls
Seqs == 1..MaxSeq

\* Option<PingIdentifier>: <<>> is None, <<i>> is Some(i).
None == <<>>
Some(i) == <<i>>

VARIABLES
    socket_type,   \* the kind of the one OS socket of the Client
    transport,     \* "ok" | "failed": the socket; the intake task runs while it is ok
    pinger,        \* [Sessions -> Pinger]: alive, host, ident, last_sequence
    reply_map,     \* the ReplyMap: a set of entries [host, ident, seq, waiter]
    calls,         \* [CallIds -> the position and result of one ping_send/send_ping]
    chan,          \* [CallIds -> the oneshot channel created by the call's new_waiter]
    recv,          \* [CallIds -> the result of ping_recv on the call's receiver]
    wire,          \* the Echo Requests handed to the transport so far
    consumed,      \* [CallIds -> how the call's entry left the ReplyMap, in order]
    now,           \* Instant::now()
    cli            \* the ping program of main.rs: its sender task and its receive loop

vars == <<socket_type, transport, pinger, reply_map, calls, chan,
          recv, wire, consumed, now, cli>>

----------------------------------------------------------------------------
\* Errors (src/src/error.rs).  One record shape for all kinds.

NoError == [kind |-> "None", host |-> "", ident |-> None, seq |-> 0]
IdenticalRequests(host, ident, seq) ==
    [kind |-> "IdenticalRequests", host |-> host, ident |-> ident, seq |-> seq]
IOError == [kind |-> "IOError", host |-> "", ident |-> None, seq |-> 0]
IncorrectBufferSize ==
    [kind |-> "IncorrectBufferSize", host |-> "", ident |-> None, seq |-> 0]
NetworkError == [kind |-> "NetworkError", host |-> "", ident |-> None, seq |-> 0]
UnsupportedSeqNum ==
    [kind |-> "UnsupportedSeqNum", host |-> "", ident |-> None, seq |-> 0]

\* What send_ping can fail with: the encoder's size error or the socket's error.
SendErrors == {IOError, IncorrectBufferSize}

----------------------------------------------------------------------------
\* Pinger::new

is_linux_icmp_socket(t) == t = "DGRAM"

\* A faulty constructor that keeps the hint on every kind of socket.
NewPingerKeepsHint(host, ident_hint, t) ==
    [alive |-> TRUE, host |-> host, ident |-> Some(ident_hint), last_sequence |-> 0]

NewPinger(host, ident_hint, t) ==
    [alive |-> TRUE,
     host |-> host,
     ident |-> IF is_linux_icmp_socket(t) THEN None ELSE Some(ident_hint),
     last_sequence |-> 0]

----------------------------------------------------------------------------
\* The ReplyMap (client.rs, modelled from section 4.3 of the specification).

Entry(host, ident, seq, w) == [host |-> host, ident |-> ident, seq |-> seq, waiter |-> w]

Matching(map, host, ident, seq) ==
    {e \in map : e.host = host /\ e.ident = ident /\ e.seq = seq}

\* register(key) -> receiver: duplicate-request error if the key is present.
new_waiter(map, host, ident, seq, w) ==
    IF Matching(map, host, ident, seq) # {}
    THEN [ok |-> FALSE, err |-> IdenticalRequests(host, ident, seq), map |-> map]
    ELSE [ok |-> TRUE, err |-> NoError, map |-> map \cup {Entry(host, ident, seq, w)}]

\* deregister(key): removes the key if present, no-op otherwise.
remove(map, host, ident, seq) == map \ Matching(map, host, ident, seq)

\* The oneshot channel of a waiter.  A sender that is dropped without a value
\* closes the channel; a value sent on an open channel is what the receiver gets.
NoChan == [st |-> "none", ts |-> 0]
CloseChan(ch) == IF ch.st = "open" THEN [ch EXCEPT !.st = "closed"] ELSE ch
SendChan(ch, ts) == IF ch.st = "open" THEN [st |-> "value", ts |-> ts] ELSE ch

Waiters(entries) == {e.waiter : e \in entries}

\* A faulty dispatch that delivers the reply and leaves the entry in the map.
dispatch_keep(map, ch, p, ts) ==
    LET hit == Matching(map, p.host, p.ident, p.seq)
    IN [map |-> map,
        chan |-> [c \in DOMAIN ch |-> IF c \in Waiters(hit) THEN SendChan(ch[c], ts) ELSE ch[c]],
        hit |-> Waiters(hit)]

\* dispatch(decoded_packet, timestamp): the key is derived from the packet's
\* source address, identifier and sequence; a present entry is removed and the
\* reply delivered through its channel in one step; otherwise the packet is
\* dropped.  `hit` names the waiters the reply was delivered to.
dispatch(map, ch, p, ts) ==
    LET hit == Matching(map, p.host, p.ident, p.seq)
    IN [map |-> map \ hit,
        chan |-> [c \in DOMAIN ch |-> IF c \in Waiters(hit) THEN SendChan(ch[c], ts) ELSE ch[c]],
        hit |-> Waiters(hit)]

\* The senders of the entries `gone` are dropped.
DropSenders(gone) ==
    /\ chan' = [c \in CallIds |-> IF c \in Waiters(gone) THEN CloseChan(chan[c]) ELSE chan[c]]
    /\ consumed' = [c \in CallIds |->
                      IF c \in Waiters(gone) THEN Append(consumed[c], "remove")
                      ELSE consumed[c]]

----------------------------------------------------------------------------
NoCall == [op |-> "", pc |-> "idle", session |-> "", seq |-> 0, err |-> NoError, send_time |-> 0]

\* The state of main.rs when the library is used without the ping program.
NoCli == [count |-> 0, sender |-> "off", idx |-> 0, rx |-> <<>>, fuo |-> {},
          remaining |-> 0, success |-> TRUE, global_timeout |-> "max",
          main |-> "off", received |-> 0, results |-> 0]

Init ==
    /\ socket_type \in SocketTypes
    /\ transport = "ok"
    /\ \E h \in [Sessions -> Hosts], i \in [Sessions -> Hints] :
          pinger = [s \in Sessions |-> NewPinger(h[s], i[s], socket_type)]
    /\ reply_map = {}
    /\ calls = [c \in CallIds |-> NoCall]
    /\ chan = [c \in CallIds |-> NoChan]
    /\ recv = [c \in CallIds |-> [res |-> "none", dur |-> 0]]
    /\ wire = {}
    /\ consumed = [c \in CallIds |-> <<>>]
    /\ now = 0
    /\ cli = NoCli

\* Call ids are handed out in order.
Fresh(c) == calls[c].pc = "idle" /\ (IF c = 1 THEN TRUE ELSE calls[c - 1].pc # "idle")

\* A call borrows its Pinger (&self) until it returns or its future is dropped.
InFlight(s) == \E c \in CallIds : calls[c].session = s /\ calls[c].pc \in {"registered", "sent"}

\* The Echo Request of session s with sequence seq, as the peer answers it.
Packet(s, seq) == [host |-> pinger[s].host, ident |-> pinger[s].ident, seq |-> seq]

\* A faulty ping_send that inserts its entry without the duplicate check.
PingSendRegisterUnchecked(c, s, seq) ==
    /\ Fresh(c)
    /\ pinger[s].alive
    /\ reply_map' = reply_map \cup {Entry(pinger[s].host, pinger[s].ident, seq, c)}
    /\ chan' = [chan EXCEPT ![c] = [st |-> "open", ts |-> 0]]
    /\ calls' = [calls EXCEPT ![c] = [op |-> "ping_send", pc |-> "registered", session |-> s,
                                      seq |-> seq, err |-> NoError, send_time |-> 0]]
    /\ UNCHANGED <<cli, socket_type, transport, pinger, recv, wire, consumed, now>>

\* A faulty ping_send that hands the packet to the transport before it registers.
PingSendTransmitFirst(c, s, seq) ==
    /\ Fresh(c)
    /\ pinger[s].alive
    /\ transport = "ok"
    /\ wire' = wire \cup {Packet(s, seq)}
    /\ calls' = [calls EXCEPT ![c] = [op |-> "ping_send", pc |-> "sent", session |-> s,
                                      seq |-> seq, err |-> NoError, send_time |-> 0]]
    /\ UNCHANGED <<cli, socket_type, transport, pinger, reply_map, chan, recv, consumed, now>>

\* A faulty ping_send that refuses a key for good once it has been registered.
PingSendRegisterOnce(c, s, seq) ==
    /\ Fresh(c)
    /\ pinger[s].alive
    /\ LET used == \E d \in CallIds :
                       /\ calls[d].op = "ping_send" /\ chan[d] # NoChan
                       /\ Packet(calls[d].session, calls[d].seq) = Packet(s, seq)
       IN IF ~used
          THEN /\ reply_map' = reply_map \cup {Entry(pinger[s].host, pinger[s].ident, seq, c)}
               /\ chan' = [chan EXCEPT ![c] = [st |-> "open", ts |-> 0]]
               /\ calls' = [calls EXCEPT ![c] = [op |-> "ping_send", pc |-> "registered",
                                                 session |-> s, seq |-> seq,
                                                 err |-> NoError, send_time |-> 0]]
          ELSE /\ calls' = [calls EXCEPT ![c] = [op |-> "ping_send", pc |-> "failed",
                                                 session |-> s, seq |-> seq,
                                                 err |-> IdenticalRequests(pinger[s].host,
                                                            pinger[s].ident, seq),
                                                 send_time |-> 0]]
               /\ UNCHANGED <<reply_map, chan>>
    /\ UNCHANGED <<cli, socket_type, transport, pinger, recv, wire, consumed, now>>

\* ping_send, line 71: register to wait for a reply; `?` returns the error.
PingSendRegister(c, s, seq) ==
    /\ Fresh(c)
    /\ pinger[s].alive
    /\ LET r == new_waiter(reply_map, pinger[s].host, pinger[s].ident, seq, c)
       IN IF r.ok
          THEN /\ reply_map' = r.map
               /\ chan' = [chan EXCEPT ![c] = [st |-> "open", ts |-> 0]]
               /\ calls' = [calls EXCEPT ![c] = [op |-> "ping_send", pc |-> "registered",
                                                 session |-> s, seq |-> seq,
                                                 err |-> NoError, send_time |-> 0]]
          ELSE /\ calls' = [calls EXCEPT ![c] = [op |-> "ping_send", pc |-> "failed",
                                                 session |-> s, seq |-> seq,
                                                 err |-> r.err, send_time |-> 0]]
               /\ UNCHANGED <<reply_map, chan>>
    /\ UNCHANGED <<cli, socket_type, transport, pinger, recv, wire, consumed, now>>

\* The sequence numbers a caller can ask for: a u16, 0 included.
RawSeqs == 0..MaxSeq

\* A faulty conversion that lets the sequence number 0 through.
PingSequenceFromUnchecked(n) == [ok |-> TRUE, err |-> NoError]

\* PingSequence wraps a NonZeroU16 (ping.rs line 80, main.rs lines 175-177), so
\* the u16 0 has no PingSequence.  The conversion is in the icmp module; it is
\* modelled from sections 4.2 and 9 of the specification: 0 is refused with
\* the invalid-sequence error.
PingSequenceFrom(n) ==
    IF n = 0 THEN [ok |-> FALSE, err |-> UnsupportedSeqNum]
             ELSE [ok |-> TRUE,  err |-> NoError]

\* A caller asks ping / ping_send for the u16 sequence number n: ping_send runs
\* with the PingSequence of n, and without one the call ends before line 71.
PingSendCall(c, s, n) ==
    IF PingSequenceFrom(n).ok
    THEN PingSendRegister(c, s, n)
    ELSE /\ Fresh(c)
         /\ pinger[s].alive
         /\ calls' = [calls EXCEPT ![c] = [op |-> "ping_send", pc |-> "failed",
                                           session |-> s, seq |-> n,
                                           err |-> PingSequenceFrom(n).err,
                                           send_time |-> 0]]
         /\ UNCHANGED <<cli, socket_type, transport, pinger, reply_map, chan, recv,
                        wire, consumed, now>>

\* ping_send, line 74, send_ping returns Ok: the packet is handed to the transport.
PingSendTransmitOk(c) ==
    /\ calls[c].pc = "registered"
    /\ transport = "ok"
    /\ wire' = wire \cup {Packet(calls[c].session, calls[c].seq)}
    /\ calls' = [calls EXCEPT ![c].pc = "sent"]
    /\ UNCHANGED <<cli, socket_type, transport, pinger, reply_map, chan, recv, consumed, now>>

\* A faulty ping_send that returns the error of send_ping without the rollback.
PingSendTransmitErrNoRollback(c, e) ==
    /\ calls[c].pc = "registered"
    /\ calls' = [calls EXCEPT ![c].pc = "failed", ![c].err = e]
    /\ UNCHANGED <<cli, socket_type, transport, pinger, reply_map, chan, recv, wire, consumed, now>>

\* A faulty ping_send that records the sequence of a send that failed.
PingSendTransmitErrStoresLast(c, e) ==
    /\ calls[c].pc = "registered"
    /\ LET s == calls[c].session
           left == remove(reply_map, pinger[s].host, pinger[s].ident, calls[c].seq)
       IN /\ reply_map' = left
          /\ DropSenders(reply_map \ left)
          /\ pinger' = [pinger EXCEPT ![s].last_sequence = calls[c].seq]
    /\ calls' = [calls EXCEPT ![c].pc = "failed", ![c].err = e]
    /\ UNCHANGED <<cli, socket_type, transport, recv, wire, now>>

\* ping_send, lines 74-77, send_ping returns Err(e): rollback, return Err(e).
PingSendTransmitErr(c, e) ==
    /\ calls[c].pc = "registered"
    /\ LET s == calls[c].session
           left == remove(reply_map, pinger[s].host, pinger[s].ident, calls[c].seq)
       IN /\ reply_map' = left
          /\ DropSenders(reply_map \ left)
    /\ calls' = [calls EXCEPT ![c].pc = "failed", ![c].err = e]
    /\ UNCHANGED <<cli, socket_type, transport, pinger, recv, wire, now>>

\* ping_send, lines 79-82: send_time, last_sequence, Ok((send_time, reply_waiter)).
PingSendFinish(c) ==
    /\ calls[c].pc = "sent"
    /\ calls' = [calls EXCEPT ![c].pc = "returned", ![c].send_time = now]
    /\ pinger' = [pinger EXCEPT ![calls[c].session].last_sequence = calls[c].seq]
    /\ UNCHANGED <<cli, socket_type, transport, reply_map, chan, recv, wire, consumed, now>>

\* The ping_send future is dropped while it is suspended in send_to (line 114).
PingSendCancel(c) ==
    /\ calls[c].pc = "registered"
    /\ calls' = [calls EXCEPT ![c].pc = "cancelled"]
    /\ UNCHANGED <<cli, socket_type, transport, pinger, reply_map, chan, recv, wire, consumed, now>>

\* A faulty send_ping that records what it sent as the last sequence.
SendPingStoresLast(c, s, seq, ok, e) ==
    /\ Fresh(c)
    /\ pinger[s].alive
    /\ ok => transport = "ok"
    /\ wire' = IF ok THEN wire \cup {Packet(s, seq)} ELSE wire
    /\ pinger' = IF ok THEN [pinger EXCEPT ![s].last_sequence = seq] ELSE pinger
    /\ calls' = [calls EXCEPT ![c] = [op |-> "send_ping",
                                      pc |-> IF ok THEN "sent_only" ELSE "failed",
                                      session |-> s, seq |-> seq,
                                      err |-> IF ok THEN NoError ELSE e,
                                      send_time |-> 0]]
    /\ UNCHANGED <<cli, socket_type, transport, reply_map, chan, recv, consumed, now>>

\* send_ping called on its own (lines 96-117): no waiter is registered.
SendPing(c, s, seq, ok, e) ==
    /\ Fresh(c)
    /\ pinger[s].alive
    /\ ok => transport = "ok"
    /\ wire' = IF ok THEN wire \cup {Packet(s, seq)} ELSE wire
    /\ calls' = [calls EXCEPT ![c] = [op |-> "send_ping",
                                      pc |-> IF ok THEN "sent_only" ELSE "failed",
                                      session |-> s, seq |-> seq,
                                      err |-> IF ok THEN NoError ELSE e,
                                      send_time |-> 0]]
    /\ UNCHANGED <<cli, socket_type, transport, pinger, reply_map, chan, recv, consumed, now>>

\* A faulty duration: the plain difference of the two timestamps.
duration_since(later, earlier) == later - earlier

\* saturating_duration_since (line 91).
saturating_duration_since(later, earlier) == IF later >= earlier THEN later - earlier ELSE 0

\* A faulty ping_recv that maps a closed channel to a reply as well.
PingRecvAlwaysOk(c) ==
    /\ calls[c].pc = "returned"
    /\ recv[c].res = "none"
    /\ chan[c].st \in {"value", "closed"}
    /\ recv' = [recv EXCEPT ![c] =
                  [res |-> "Ok",
                   dur |-> saturating_duration_since(chan[c].ts, calls[c].send_time)]]
    /\ UNCHANGED <<cli, socket_type, transport, pinger, reply_map, calls, chan, wire, consumed, now>>

\* ping_recv (lines 85-93) returns: the receiver resolved to a Reply or closed.
\* The receiver is an owned value that outlives its Pinger, and ping_recv reads
\* nothing of self: the await resolves whether or not the session is alive.
PingRecv(c) ==
    /\ calls[c].pc = "returned"
    /\ recv[c].res = "none"
    /\ chan[c].st \in {"value", "closed"}
    /\ recv' = [recv EXCEPT ![c] =
                  IF chan[c].st = "value"
                  THEN [res |-> "Ok",
                        dur |-> saturating_duration_since(chan[c].ts, calls[c].send_time)]
                  ELSE [res |-> "NetworkError", dur |-> 0]]
    /\ UNCHANGED <<cli, socket_type, transport, pinger, reply_map, calls, chan, wire, consumed, now>>

\* A faulty Drop that leaves the ReplyMap alone.
DropPingerNoRemove(s) ==
    /\ pinger[s].alive
    /\ ~InFlight(s)
    /\ pinger' = [pinger EXCEPT ![s].alive = FALSE]
    /\ UNCHANGED <<cli, socket_type, transport, reply_map, calls, chan, recv, wire, consumed, now>>

\* impl Drop for Pinger (lines 26-35).
DropPinger(s) ==
    /\ pinger[s].alive
    /\ ~InFlight(s)
    /\ pinger' = [pinger EXCEPT ![s].alive = FALSE]
    /\ LET left == IF pinger[s].last_sequence # 0
                   THEN remove(reply_map, pinger[s].host, pinger[s].ident,
                               pinger[s].last_sequence)
                   ELSE reply_map
       IN /\ reply_map' = left
          /\ DropSenders(reply_map \ left)
    /\ UNCHANGED <<cli, socket_type, transport, calls, recv, wire, now>>

\* The intake task reads an Echo Reply to a request that was transmitted (the
\* network may delay and duplicate replies) and dispatches it with its arrival
\* timestamp.
Dispatch(p) ==
    /\ transport = "ok"
    /\ p \in wire
    /\ LET r == dispatch(reply_map, chan, p, now)
       IN /\ reply_map' = r.map
          /\ chan' = r.chan
          /\ consumed' = [c \in CallIds |->
                            IF c \in r.hit THEN Append(consumed[c], "dispatch")
                            ELSE consumed[c]]
    /\ UNCHANGED <<cli, socket_type, transport, pinger, calls, recv, wire, now>>

\* The socket breaks: the read side ends and the intake task exits.  The
\* Client and the live Pingers still hold the ReplyMap, so its senders stay.
TransportFail ==
    /\ transport = "ok"
    /\ transport' = "failed"
    /\ UNCHANGED <<cli, socket_type, pinger, reply_map, calls, chan, recv, wire, consumed, now>>

\* Time passes.
Tick ==
    /\ now < MaxTime
    /\ now' = now + 1
    /\ UNCHANGED <<cli, socket_type, transport, pinger, reply_map, calls, chan, recv, wire, consumed>>

Next ==
    \/ \E c \in CallIds, s \in Sessions, n \in RawSeqs : PingSendCall(c, s, n)
    \/ \E c \in CallIds : PingSendTransmitOk(c)
    \/ \E c \in CallIds, e \in SendErrors : PingSendTransmitErr(c, e)
    \/ \E c \in CallIds : PingSendFinish(c)
    \/ \E c \in CallIds : PingSendCancel(c)
    \/ \E c \in CallIds, s \in Sessions, seq \in Seqs, ok \in BOOLEAN, e \in SendErrors :
          SendPing(c, s, seq, ok, e)
    \/ \E c \in CallIds : PingRecv(c)
    \/ \E s \in Sessions : DropPinger(s)
    \/ \E p \in wire : Dispatch(p)
    \/ TransportFail
    \/ Tick

Spec == Init /\ [][Next]_vars

\* The runtime polls a task whose future can make progress: a ping_send that
\* was not cancelled runs to its end and an awaited receiver that is resolved
\* or closed returns.  Nothing obliges the caller to start a call or to drop a
\* Pinger, nor the network to answer.
Fairness ==
    \A c \in CallIds :
        /\ WF_vars(PingRecv(c))
        /\ WF_vars(PingSendFinish(c))

FairSpec == Spec /\ Fairness

----------------------------------------------------------------------------
\* The ping program (src/src/main.rs): one Pinger ("A"), a sender task that
\* calls ping_send once per interval tick and hands each result to the receive
\* loop over an unbounded channel, and the receive loop of main, a select!
\* over the global timeout, the channel and the FuturesUnordered of ping_recv
\* futures.  The calls of the sender task are the calls 1, 2, ... of the
\* library model above, and call c carries the sequence number c.

\* u16::MAX + 1: `count as u16` (line 171) keeps count modulo this.
U16 == 65536

\* The counts of the runs: small ones, and the same ones past the u16 range.
Counts == (0..MaxCalls) \cup {U16 + k : k \in 0..MaxCalls}

\* `let count = count as u16` (line 171).
CountAsU16(n) == n % U16

CliInit ==
    /\ socket_type \in SocketTypes
    /\ transport = "ok"
    /\ \E h \in [Sessions -> Hosts], i \in [Sessions -> Hints] :
          pinger = [s \in Sessions |-> NewPinger(h[s], i[s], socket_type)]
    /\ reply_map = {}
    /\ calls = [c \in CallIds |-> NoCall]
    /\ chan = [c \in CallIds |-> NoChan]
    /\ recv = [c \in CallIds |-> [res |-> "none", dur |-> 0]]
    /\ wire = {}
    /\ consumed = [c \in CallIds |-> <<>>]
    /\ now = 0
    /\ \E n \in Counts :
          cli = [count |-> n, sender |-> "for", idx |-> 0, rx |-> <<>>, fuo |-> {},
                 remaining |-> n, success |-> TRUE, global_timeout |-> "max",
                 main |-> "loop", received |-> 0, results |-> 0]

lib == <<socket_type, transport, pinger, reply_map, calls, chan, recv, wire,
         consumed, now>>

\* main has not returned: the runtime, and with it the sender task, is running.
Running == cli.main = "loop"

\* Sender task, line 172: `for idx in 0..count`; at the end of the range the
\* task ends and tx is dropped.
CliSenderFor ==
    /\ Running
    /\ cli.sender = "for"
    /\ cli' = [cli EXCEPT !.sender = IF cli.idx < CountAsU16(cli.count)
                                     THEN "tick" ELSE "done"]
    /\ UNCHANGED lib

\* Sender task, line 173: interval.tick().await returns.
CliTick ==
    /\ Running
    /\ cli.sender = "tick"
    /\ cli' = [cli EXCEPT !.sender = "send"]
    /\ UNCHANGED lib

\* Sender task, lines 174-177: ping_send(PingSequence(idx + 1)) starts.
CliPingSendRegister(c) ==
    /\ Running
    /\ cli.sender = "send"
    /\ c = cli.idx + 1
    /\ PingSendRegister(c, "A", cli.idx + 1)

CliPingSendTransmitOk(c) == Running /\ PingSendTransmitOk(c)

CliPingSendTransmitErr(c, e) == Running /\ PingSendTransmitErr(c, e)

CliPingSendFinish(c) == Running /\ PingSendFinish(c)

\* Sender task, line 177: ping_send returned Err and unwrap() panics; the
\* task ends and tx is dropped.
CliSenderPanic ==
    /\ Running
    /\ cli.sender = "send"
    /\ calls[cli.idx + 1].pc = "failed"
    /\ cli' = [cli EXCEPT !.sender = "panicked"]
    /\ UNCHANGED lib

\* Sender task, lines 176-178: ping_send returned Ok; tx.send((send_data, last)).
CliHandOver ==
    /\ Running
    /\ cli.sender = "send"
    /\ calls[cli.idx + 1].pc = "returned"
    /\ cli' = [cli EXCEPT !.rx = Append(cli.rx,
                                   [call |-> cli.idx + 1,
                                    last |-> (cli.idx + 1 = CountAsU16(cli.count))]),
                          !.idx = cli.idx + 1,
                          !.sender = "for"]
    /\ UNCHANGED lib

\* Receive loop, lines 190-194: the global timeout elapses.  The sleep of
\* Duration::MAX of line 163 does not elapse.
CliTimeout ==
    /\ Running
    /\ cli.global_timeout = "armed"
    /\ cli' = [cli EXCEPT !.success = FALSE, !.main = "FAILURE"]
    /\ UNCHANGED lib

\* Receive loop, lines 195-200: rx.recv() yields a hand-over.
CliRecv ==
    /\ Running
    /\ cli.rx # <<>>
    /\ cli' = [cli EXCEPT !.rx = Tail(cli.rx),
                          !.fuo = cli.fuo \cup {Head(cli.rx).call},
                          !.global_timeout = IF Head(cli.rx).last THEN "armed"
                                             ELSE cli.global_timeout]
    /\ UNCHANGED lib

\* The ping_recv future of call c, polled inside fuo, completes.
CliPingRecv(c) ==
    /\ Running
    /\ c \in cli.fuo
    /\ PingRecv(c)

\* Receive loop, lines 201-232: fuo.next() yields the result of call c.
CliResult(c) ==
    /\ Running
    /\ c \in cli.fuo
    /\ recv[c].res # "none"
    /\ LET ok == recv[c].res = "Ok"
           success == cli.success /\ ok
           remaining == cli.remaining - 1
       IN cli' = [cli EXCEPT !.fuo = cli.fuo \ {c},
                             !.received = IF ok THEN cli.received + 1 ELSE cli.received,
                             !.success = success,
                             !.remaining = remaining,
                             !.results = cli.results + 1,
                             !.main = IF remaining = 0
                                      THEN (IF success THEN "SUCCESS" ELSE "FAILURE")
                                      ELSE "loop"]
    /\ UNCHANGED lib

\* The intake task dispatches a reply while the program runs.
CliDispatch(p) == Running /\ Dispatch(p)

CliClock == Running /\ Tick

CliNext ==
    \/ CliSenderFor
    \/ CliTick
    \/ \E c \in CallIds : CliPingSendRegister(c)
    \/ \E c \in CallIds : CliPingSendTransmitOk(c)
    \/ \E c \in CallIds, e \in SendErrors : CliPingSendTransmitErr(c, e)
    \/ \E c \in CallIds : CliPingSendFinish(c)
    \/ CliSenderPanic
    \/ CliHandOver
    \/ CliTimeout
    \/ CliRecv
    \/ \E c \in CallIds : CliPingRecv(c)
    \/ \E c \in CallIds : CliResult(c)
    \/ \E p \in wire : CliDispatch(p)
    \/ CliClock

CliSpec == CliInit /\ [][CliNext]_vars

\* The runtime polls every task that can make progress, a send_to on the
\* socket returns, and a timer that was armed elapses.  Nothing obliges the
\* network to answer.
CliFairness ==
    /\ WF_vars(CliSenderFor)
    /\ WF_vars(CliTick)
    /\ WF_vars(CliSenderPanic)
    /\ WF_vars(CliHandOver)
    /\ WF_vars(CliTimeout)
    /\ WF_vars(CliRecv)
    /\ \A c \in CallIds :
          /\ WF_vars(CliPingSendRegister(c))
          /\ WF_vars(CliPingSendTransmitOk(c)
                     \/ \E e \in SendErrors : CliPingSendTransmitErr(c, e))
          /\ WF_vars(CliPingSendFinish(c))
          /\ WF_vars(CliPingRecv(c))
          /\ WF_vars(CliResult(c))

CliFairSpec == CliSpec /\ CliFairness

----------------------------------------------------------------------------
\* Properties.

\* The entry a call registered, while it is in the ReplyMap.
EntryOf(c) == {e \in reply_map : e.waiter = c}

\* The key of call c is pending.
Pending(c) ==
    Matching(reply_map, pinger[calls[c].session].host, pinger[calls[c].session].ident,
             calls[c].seq) # {}

AtMostOnePerKey ==
    \A e1, e2 \in reply_map :
        (e1.host = e2.host /\ e1.ident = e2.ident /\ e1.seq = e2.seq) => e1 = e2

\* In this step call c enters ping_send with sequence q on session s.
EntersPingSend(c, s, q) ==
    /\ calls[c].pc = "idle"
    /\ calls'[c].pc # "idle"
    /\ calls'[c].op = "ping_send"
    /\ calls'[c].session = s
    /\ calls'[c].seq = q

\* C1: while an entry for K = (destination, identifier, sequence) is pending, a
\* ping_send with the same K, from the same or another session, fails with
\* IdenticalRequests carrying K's host, ident and seq and changes no entry; the
\* ReplyMap never holds two entries for one key.
C1_DuplicateRejected ==
    /\ []AtMostOnePerKey
    /\ [][\A c \in CallIds, s \in Sessions, q \in Seqs :
            (EntersPingSend(c, s, q)
             /\ Matching(reply_map, pinger[s].host, pinger[s].ident, q) # {})
            => /\ calls'[c].pc = "failed"
               /\ calls'[c].err = [kind |-> "IdenticalRequests", host |-> pinger[s].host,
                                   ident |-> pinger[s].ident, seq |-> q]
               /\ reply_map' = reply_map
               /\ chan' = chan]_vars

\* C1 witness: a ping_send was rejected as a duplicate of an entry that another
\* session registered and that is still pending.
C1_Witness ==
    \E c \in CallIds, e \in reply_map :
        /\ calls[c].op = "ping_send"
        /\ calls[c].pc = "failed"
        /\ calls[c].err.kind = "IdenticalRequests"
        /\ calls[c].err.seq = e.seq
        /\ e.waiter # c
        /\ calls[e.waiter].session # calls[c].session

\* C2: a reply matching a pending key K is delivered to exactly one waiter, the
\* one whose register created the entry, and the entry is removed in the same
\* step; only that waiter's ping_recv returns the reply.  A reply whose key is
\* not pending changes neither the ReplyMap nor any channel and is delivered
\* to nobody.
C2_ExactlyOneDelivery ==
    /\ [](\A p \in wire :
            LET r == dispatch(reply_map, chan, p, now)
                hit == Matching(reply_map, p.host, p.ident, p.seq)
            IN IF hit = {}
               THEN r.map = reply_map /\ r.chan = chan /\ r.hit = {}
               ELSE /\ Cardinality(r.hit) = 1
                    /\ \A e \in hit : /\ r.hit = {e.waiter}
                                      /\ e \notin r.map
                                      /\ r.chan[e.waiter].st = "value"
                    /\ \A c \in CallIds \ r.hit : r.chan[c] = chan[c]
                    /\ r.map = reply_map \ hit)
    /\ [][\A c \in CallIds :
            (chan[c].st # "value" /\ chan'[c].st = "value")
            => /\ EntryOf(c) # {}
               /\ EntryOf(c)' = {}
               /\ \A d \in CallIds \ {c} : chan'[d] = chan[d]]_vars
    /\ [](\A c \in CallIds :
            recv[c].res = "Ok" => chan[c].st = "value" /\ consumed[c] = <<"dispatch">>)

\* C2 witness: the reply for K was delivered and returned by ping_recv, K is no
\* longer pending, and a duplicate of that reply can still arrive.
C2_Witness ==
    \E c \in CallIds :
        /\ recv[c].res = "Ok"
        /\ consumed[c] = <<"dispatch">>
        /\ ~Pending(c)
        /\ transport = "ok"
        /\ Packet(calls[c].session, calls[c].seq) \in wire

\* The calls of session s that returned a receiver to the caller.
Sent(s) == {c \in CallIds : calls[c].op = "ping_send" /\ calls[c].session = s
                            /\ calls[c].pc = "returned"}

\* C3: after a session is dropped, no entry registered by one of its ping_send
\* calls remains in the ReplyMap and every receiver those calls handed out is
\* resolved or closed.
C3_NoWaiterLeaked ==
    \A s \in Sessions :
        ~pinger[s].alive =>
            \A c \in Sent(s) : EntryOf(c) = {} /\ chan[c].st \in {"value", "closed"}

\* In this step session s is dropped.
Drops(s) == pinger[s].alive /\ ~pinger'[s].alive

\* The entry of call c is the pending entry of its session's last-sent sequence.
LastSentPending(s, c) ==
    /\ c \in Sent(s)
    /\ calls[c].seq = pinger[s].last_sequence
    /\ EntryOf(c) # {}

\* C4: dropping a session whose last-sent entry is pending removes that entry
\* and closes its channel, and the ping_recv awaiting that receiver returns
\* NetworkError.
C4_DropResolvesLastSent ==
    /\ [][\A s \in Sessions, c \in CallIds :
            (Drops(s) /\ LastSentPending(s, c))
            => EntryOf(c)' = {} /\ chan'[c].st = "closed"]_vars
    /\ \A c \in CallIds :
          (calls[c].pc = "returned" /\ chan[c].st = "closed" /\ ~pinger[calls[c].session].alive)
          ~> (recv[c].res = "NetworkError")

\* C4 witness: the session was dropped with its last-sent entry pending and
\* the awaiting ping_recv returned NetworkError.
C4_Witness ==
    \E s \in Sessions, c \in CallIds :
        /\ ~pinger[s].alive
        /\ c \in Sent(s)
        /\ calls[c].seq = pinger[s].last_sequence
        /\ consumed[c] = <<"remove">>
        /\ recv[c].res = "NetworkError"

\* C5: the drop of a session never removes an entry registered by another,
\* live session and never closes that session's channel.
C5_DropCancelsOnlyOwn ==
    [][\A s \in Sessions, e \in reply_map :
         (Drops(s) /\ calls[e.waiter].session # s /\ pinger[calls[e.waiter].session].alive)
         => e \in reply_map' /\ chan'[e.waiter] = chan[e.waiter]]_vars

\* In this step the ping_send call c hands its Echo Request to the transport.
Transmits(c) == calls[c].pc # "sent" /\ calls'[c].pc = "sent"

\* C6 as stated: at the moment ping_send hands the Echo Request for K to the
\* transport, an entry for K is in the ReplyMap.
C6_EntryPresentAtTransmit ==
    [][\A c \in CallIds, s \in Sessions, q \in Seqs :
         (Transmits(c) /\ calls'[c].session = s /\ calls'[c].seq = q)
         => Matching(reply_map, pinger[s].host, pinger[s].ident, q) # {}]_vars

\* C6 as amended: ping_send registers before it transmits.  At the moment the
\* Echo Request is handed to the transport the call's register has been made,
\* and its entry is either still in the ReplyMap or was already consumed (by a
\* reply to an earlier request with the same key, or by a removal under the
\* same key); no request of a ping_send is on the wire without its register.
C6_RegisterPrecedesTransmit ==
    /\ [][\A c \in CallIds :
            Transmits(c) => /\ chan[c].st # "none"
                            /\ (EntryOf(c) # {} \/ consumed[c] # <<>>)]_vars
    /\ [](\A c \in CallIds : calls[c].pc \in {"sent", "returned"} => chan[c].st # "none")

\* C6 witness: a request was handed to the transport with its entry pending.
C6_Witness ==
    \E c \in CallIds :
        /\ calls[c].pc = "sent"
        /\ EntryOf(c) # {}
        /\ Packet(calls[c].session, calls[c].seq) \in wire

\* C7: a ping_send that registered K and whose send_ping failed returns that
\* error, and the ReplyMap holds no entry this call created.
C7_FailedSendLeavesNoEntry ==
    \A c \in CallIds :
        (calls[c].op = "ping_send" /\ calls[c].pc = "failed" /\ chan[c].st # "none")
        => /\ calls[c].err.kind \in {"IOError", "IncorrectBufferSize"}
           /\ EntryOf(c) = {}

\* C7 witness: a send failed after the register and the rollback removed the entry.
C7_Witness ==
    \E c \in CallIds :
        /\ calls[c].op = "ping_send"
        /\ calls[c].pc = "failed"
        /\ calls[c].err.kind = "IOError"
        /\ consumed[c] = <<"remove">>
        /\ chan[c].st = "closed"

\* C8: an entry leaves the ReplyMap at most once, by a dispatch or by a removal;
\* the one that finds it decides what the waiter gets (the reply or the closed
\* channel), the other finds it absent, and the waiter never gets both.
C8_ConsumedExactlyOnce ==
    \A c \in CallIds :
        /\ Len(consumed[c]) <= 1
        /\ consumed[c] = <<"dispatch">> => chan[c].st = "value" /\ EntryOf(c) = {}
        /\ consumed[c] = <<"remove">> => chan[c].st = "closed" /\ EntryOf(c) = {}
        /\ consumed[c] = <<>> => /\ chan[c].st \in {"none", "open"}
                                 /\ (chan[c].st = "open" <=> EntryOf(c) # {})
        /\ recv[c].res = "Ok" => consumed[c] = <<"dispatch">>
        /\ recv[c].res = "NetworkError" => consumed[c] = <<"remove">>

\* C8 witness: the dispatch won; the later removal under the same key by the
\* drop of the session found the entry absent and the waiter got the reply.
C8_Witness ==
    \E c \in CallIds :
        /\ consumed[c] = <<"dispatch">>
        /\ recv[c].res = "Ok"
        /\ ~pinger[calls[c].session].alive
        /\ pinger[calls[c].session].last_sequence = calls[c].seq

\* C9: the duration returned by ping_recv is never negative: the arrival
\* timestamp minus the send timestamp, or zero when the reply arrived before
\* the send timestamp was taken.
C9_DurationNonNegative ==
    \A c \in CallIds :
        recv[c].res = "Ok"
        => /\ recv[c].dur >= 0
           /\ chan[c].ts >= calls[c].send_time => recv[c].dur = chan[c].ts - calls[c].send_time
           /\ chan[c].ts < calls[c].send_time => recv[c].dur = 0

\* C9 witness: the reply arrived before the send timestamp was taken.
C9_Witness ==
    \E c \in CallIds :
        /\ recv[c].res = "Ok"
        /\ chan[c].ts < calls[c].send_time
        /\ recv[c].dur = 0

\* C10: after the transport failed, every receiver that is still pending is
\* resolved to NetworkError.
C10_TransportFailureEndsWaits ==
    \A c \in CallIds :
        (transport = "failed" /\ calls[c].pc = "returned" /\ chan[c].st = "open")
        ~> (recv[c].res = "NetworkError")

----------------------------------------------------------------------------
----------------------------------------------------------------------------
\* C12: a send_ping called on its own, whether it returns Ok or Err, leaves
\* the ReplyMap, every channel and every Pinger's last_sequence as they were;
\* on Ok its packet is on the wire; the call never owns an entry or a channel.
SendOnly(c) == calls[c].pc = "idle" /\ calls'[c].op = "send_ping"

C12_SendOnlyRegistersNothing ==
    [][\A c \in CallIds :
          /\ SendOnly(c) =>
                /\ reply_map' = reply_map
                /\ chan' = chan
                /\ pinger' = pinger
                /\ calls'[c].pc = "sent_only" =>
                       Packet(calls'[c].session, calls'[c].seq) \in wire'
                /\ calls'[c].pc = "failed" => wire' = wire
          /\ calls[c].op = "send_ping" =>
                EntryOf(c) = {} /\ chan[c] = NoChan]_vars

\* A send_ping returned Ok in a session whose earlier ping_send is still the
\* one recorded as last sent.
C12_Witness ==
    \E c, d \in CallIds :
        /\ calls[c].op = "send_ping" /\ calls[c].pc = "sent_only"
        /\ calls[d].op = "ping_send" /\ calls[d].pc = "returned"
        /\ calls[d].session = calls[c].session
        /\ pinger[calls[c].session].last_sequence = calls[d].seq

----------------------------------------------------------------------------
\* The identities a key can carry.
Idents == {None} \cup {Some(i) : i \in Hints}

\* The entry of the send recorded in last_sequence left the ReplyMap through a
\* dispatch, and no returned send of the session with that sequence is pending.
LastSentDispatched(s) ==
    /\ \E c \in Sent(s) :
          calls[c].seq = pinger[s].last_sequence /\ consumed[c] = <<"dispatch">>
    /\ \A c \in Sent(s) :
          calls[c].seq = pinger[s].last_sequence => EntryOf(c) = {}

\* remove of a key that has no entry gives the same ReplyMap, and a second
\* remove of a key gives what the first gave.
RemoveAbsentIsNoOp ==
    \A h \in Hosts, i \in Idents, q \in Seqs :
        /\ Matching(reply_map, h, i, q) = {} => remove(reply_map, h, i, q) = reply_map
        /\ remove(remove(reply_map, h, i, q), h, i, q) = remove(reply_map, h, i, q)

\* C13: remove of an absent key changes nothing and a second remove changes
\* nothing more; the drop of a session whose last-sent entry was consumed by a
\* dispatch leaves the ReplyMap and every channel as they were.
C13_DropAfterDispatchIsNoOp ==
    [][/\ RemoveAbsentIsNoOp
       /\ \A s \in Sessions :
             (Drops(s) /\ LastSentDispatched(s))
             => reply_map' = reply_map /\ chan' = chan]_vars

\* What holds instead: the drop changes nothing when the key of last_sequence
\* has no entry at the time of the drop.
C13_DropWithAbsentKeyIsNoOp ==
    [][/\ RemoveAbsentIsNoOp
       /\ \A s \in Sessions :
             (Drops(s) /\ Matching(reply_map, pinger[s].host, pinger[s].ident,
                                   pinger[s].last_sequence) = {})
             => reply_map' = reply_map /\ chan' = chan]_vars

----------------------------------------------------------------------------
\* In this step the ping_send of call c returns Ok.
ReturnsOk(c) == calls[c].pc = "sent" /\ calls'[c].pc = "returned"

\* In this step the ping_send of call c returns an error.
ReturnsErr(c) ==
    calls[c].pc # "failed" /\ calls'[c].pc = "failed" /\ calls'[c].op = "ping_send"

\* C16: last_sequence of a Pinger changes only in the step in which one of its
\* ping_send calls returns Ok, and then to that call's sequence; a ping_send
\* that returns an error leaves every last_sequence as it was; one refused as
\* a duplicate leaves the wire, the ReplyMap and every channel as they were.
C16_LastSentOnlyOnSuccess ==
    [][/\ \A s \in Sessions :
             pinger'[s].last_sequence # pinger[s].last_sequence =>
                \E c \in CallIds :
                    /\ calls[c].op = "ping_send" /\ calls[c].session = s
                    /\ ReturnsOk(c)
                    /\ pinger'[s].last_sequence = calls[c].seq
       /\ \A c \in CallIds :
             /\ ReturnsOk(c) => pinger'[calls[c].session].last_sequence = calls[c].seq
             /\ ReturnsErr(c) =>
                   \A s \in Sessions : pinger'[s].last_sequence = pinger[s].last_sequence
             /\ (ReturnsErr(c) /\ calls'[c].err.kind = "IdenticalRequests") =>
                   wire' = wire /\ reply_map' = reply_map /\ chan' = chan]_vars

\* A ping_send was refused as a duplicate of a send of its own session that
\* had not returned yet, last_sequence is still 0 after it, and the first
\* send's waiter got its reply.
C16_Witness ==
    \E c, d \in CallIds :
        /\ calls[c].pc = "failed" /\ calls[c].err.kind = "IdenticalRequests"
        /\ calls[d].op = "ping_send" /\ calls[d].session = calls[c].session
        /\ calls[d].seq = calls[c].seq /\ calls[d].pc = "sent"
        /\ pinger[calls[c].session].last_sequence = 0
        /\ chan[d].st = "value"

----------------------------------------------------------------------------
\* C17: once a ping_send that was cancelled after it registered has been
\* followed by the drop of its session, the entry it registered is no longer
\* in the ReplyMap.
C17_CancelledSendLeavesNoEntry ==
    \A c \in CallIds :
        (calls[c].pc = "cancelled" /\ ~pinger[calls[c].session].alive)
        => EntryOf(c) = {}

----------------------------------------------------------------------------
\* C18: a ping_send whose key has no entry registers, whatever happened to the
\* key before (dispatch, rollback, drop); a channel is resolved only while its
\* own entry is in the ReplyMap, and a channel that is resolved or closed never
\* changes again, so a reply to the reused key reaches the new waiter only.
C18_KeyReusable ==
    [][/\ \A c \in CallIds, s \in Sessions, q \in Seqs :
             (EntersPingSend(c, s, q)
              /\ Matching(reply_map, pinger[s].host, pinger[s].ident, q) = {})
             => /\ calls'[c].pc = "registered"
                /\ EntryOf(c)' # {}
                /\ chan'[c].st = "open"
       /\ \A d \in CallIds :
             /\ chan[d].st \in {"value", "closed"} => chan'[d] = chan[d]
             /\ (chan[d].st = "open" /\ chan'[d].st = "value") => EntryOf(d) # {}]_vars

\* The key of a send whose entry was consumed by a dispatch was registered
\* again and the next reply went to the new waiter, at a later time.
C18_Witness ==
    \E c, d \in CallIds :
        /\ c < d
        /\ calls[c].op = "ping_send" /\ calls[d].op = "ping_send"
        /\ Packet(calls[c].session, calls[c].seq) = Packet(calls[d].session, calls[d].seq)
        /\ consumed[c] = <<"dispatch">> /\ consumed[d] = <<"dispatch">>
        /\ chan[c].st = "value" /\ chan[d].st = "value"
        /\ chan[c].ts < chan[d].ts

----------------------------------------------------------------------------
\* The entries this step removed other than by a dispatch.
Removed == {e \in reply_map \ reply_map' :
               consumed'[e.waiter] = Append(consumed[e.waiter], "remove")}

\* Entry e is stored under the destination and identity of session s.
KeyOf(e, s) == e.host = pinger[s].host /\ e.ident = pinger[s].ident

\* C19: host and ident of a Pinger never change after Pinger::new; ident is
\* None exactly on a DGRAM (Linux ICMP) socket and is the caller's hint on
\* any other; every entry a ping_send registers, every entry its rollback
\* removes and every entry a drop removes is under the host and ident of the
\* Pinger that acts.
C19_IdentityFixed ==
    [][/\ \A s \in Sessions :
             /\ pinger'[s].host = pinger[s].host
             /\ pinger'[s].ident = pinger[s].ident
             /\ (pinger[s].ident = None) <=> (socket_type = "DGRAM")
             /\ pinger[s].ident \in Idents
       /\ \A h \in Hosts, i \in Hints, k \in SocketTypes :
             /\ NewPinger(h, i, k).host = h
             /\ k # "DGRAM" => NewPinger(h, i, k).ident = Some(i)
       /\ \A e \in reply_map' \ reply_map :
             /\ KeyOf(e, calls'[e.waiter].session)
             /\ e.seq = calls'[e.waiter].seq
       /\ \A c \in CallIds :
             ReturnsErr(c) =>
                \A e \in Removed : KeyOf(e, calls[c].session) /\ e.seq = calls[c].seq
       /\ \A s \in Sessions :
             Drops(s) =>
                \A e \in Removed : KeyOf(e, s) /\ e.seq = pinger[s].last_sequence]_vars

\* On a RAW socket two sessions with different hints: one of them had a send
\* rolled back and was then dropped with its last-sent entry pending.
C19_Witness ==
    \E c, d \in CallIds :
        /\ socket_type = "RAW"
        /\ pinger["A"].ident # pinger["B"].ident
        /\ calls[c].session = calls[d].session
        /\ calls[c].pc = "failed" /\ calls[c].err \in SendErrors
        /\ consumed[c] = <<"remove">>
        /\ calls[d].pc = "returned" /\ consumed[d] = <<"remove">>
        /\ ~pinger[calls[d].session].alive

----------------------------------------------------------------------------
\* The sends the sender task has issued and handed over so far: cli.idx of
\* them, with the sequence numbers 1..cli.idx.
SendsIssued == {c \in CallIds : c <= cli.idx}

\* One of the sender task's ping_send calls returned an error.
SendFailed == \E c \in CallIds : calls[c].pc = "failed"

\* C14: when the sender task ends its loop it has issued `count` ping_send
\* calls, the call with sequence k for every k in 1..count, each returned Ok.
C14_SenderIssuesAllCount ==
    cli.sender = "done" =>
        /\ cli.idx = cli.count
        /\ \A k \in 1..cli.idx : calls[k].seq = k /\ calls[k].pc = "returned"

\* What holds instead, for a count in the u16 range: unless a send fails, the
\* sender task eventually has issued all count sends, replies or no replies.
C14_AllSendsOccurInU16Range ==
    <>(SendFailed \/ cli.count >= U16
       \/ (cli.idx = cli.count /\ Cardinality(SendsIssued) = cli.count))

----------------------------------------------------------------------------
\* C15: for every count, unless a send fails, the receive loop eventually
\* exits, and a run that exits with results still missing exits with FAILURE.
C15_AlwaysTerminates ==
    /\ <>(SendFailed \/ ~Running)
    /\ [](cli.main = "SUCCESS" => cli.remaining = 0 /\ cli.received = cli.results)

\* What holds instead: the runs in which the sender task has at least one
\* send to make and no send fails end.
C15_TerminatesWithSends ==
    /\ <>(SendFailed \/ CountAsU16(cli.count) = 0 \/ ~Running)
    /\ [](cli.main = "SUCCESS" => cli.remaining = 0 /\ cli.received = cli.results)

----------------------------------------------------------------------------
\* The calls the receive loop has taken from the channel.
Taken == {c \in CallIds : c <= cli.idx - Len(cli.rx)}

\* The receive loop left through its timeout branch.
TimedOut == cli.main = "FAILURE" /\ cli.remaining > 0

\* C20: the timeout is armed, and so can fire, only after the ping_send with
\* sequence = count has returned and the receive loop has taken it from the
\* channel; and received <= results consumed <= count in every state.
C20_TimeoutAfterLastSend ==
    /\ (cli.global_timeout = "armed" \/ TimedOut) =>
          \E c \in Taken : calls[c].seq = cli.count /\ calls[c].pc = "returned"
    /\ cli.received <= cli.results
    /\ cli.results <= cli.count

\* What holds instead: the same with the sequence count modulo 2^16, the last
\* one the sender task sends.
C20_TimeoutAfterLastSendU16 ==
    /\ (cli.global_timeout = "armed" \/ TimedOut) =>
          \E c \in Taken : /\ calls[c].seq = CountAsU16(cli.count)
                            /\ calls[c].pc = "returned"
                            /\ cli.idx = CountAsU16(cli.count)
    /\ cli.received <= cli.results
    /\ cli.results <= cli.count
    /\ cli.results + cli.remaining = cli.count

====
